---- MODULE Spec2Model ----
(***************************************************************************)
(* Block type registration store of packages/blocks (store/actions.js):    *)
(* the processBlockType pipeline, the two thunks that run it               *)
(* (__experimentalRegisterBlockType, __experimentalReapplyBlockTypeFilters)*)
(* and the plain action creators, together with the reducers that apply    *)
(* the dispatched actions to the store.                                    *)
(***************************************************************************)
EXTENDS Integers, Sequences, FiniteSets, TLC

VARIABLES
    unprocessedBlockTypes,  \* raw log: insertion-ordered sequence of raw block types, one per name
    blockTypes,             \* processed map: block name -> processed settings
    categories,             \* ordered list of categories [slug, title]
    filters,                \* callbacks hooked on 'blocks.registerBlockType', in registration order
    last                    \* the last operation run: its input, its outcome and what it emitted

vars == <<unprocessedBlockTypes, blockTypes, categories, filters, last>>

(***************************************************************************)
(* Bounds                                                                  *)
(***************************************************************************)
MaxFilters == 1
MaxDeprecated == 2

(***************************************************************************)
(* JavaScript values.  A value carries its typeof tag (an array of objects  *)
(* is told apart by the tag "array"); an object is a function from the     *)
(* keys it owns to values, so that `'k' in o` is k \in DOMAIN o and        *)
(* `delete o.k` shrinks the domain.                                        *)
(***************************************************************************)
Str(s) == [t |-> "string", v |-> s]
Num(s) == [t |-> "number", v |-> s]
Fn(s) == [t |-> "function", v |-> s]
Icon(s) == [t |-> "object", v |-> s]
Obj(s) == [t |-> "object", v |-> s]
Arr(items) == [t |-> "array", v |-> items]
Absent == [t |-> "undefined", v |-> ""]

\* ToBoolean of a value.
truthy(value) ==
    /\ value.t # "undefined"
    /\ value.t = "string" => value.v # ""
    /\ value.t = "number" => value.v # "0"

EmptyObject == [k \in {} |-> Absent]
Has(obj, key) == key \in DOMAIN obj
Get(obj, key) == IF key \in DOMAIN obj THEN obj[key] ELSE Absent
Put(obj, key, val) == [k \in DOMAIN obj \cup {key} |-> IF k = key THEN val ELSE obj[k]]
Delete(obj, key) == [k \in DOMAIN obj \ {key} |-> obj[k]]

\* An array or a function that carries own properties is the function from those
\* properties plus the slot ClassSlot, which holds "Array" or "Function"; the slot is
\* no own enumerable property, so a spread or Object.entries does not see it.
ClassSlot == "[[Class]]"
ownEnumerable(obj) == Delete(obj, ClassSlot)

\* What a filter chain hands back: a plain object, an array, null, or a number.
Plain(fields) == [kind |-> "object", fields |-> fields]
ArrayOf(fields) == [kind |-> "array", fields |-> fields]
Null == [kind |-> "null", fields |-> EmptyObject]
Number == [kind |-> "number", fields |-> EmptyObject]

(***************************************************************************)
(* Diagnostics and dispatches, in the order they happen.                   *)
(***************************************************************************)
\* `block` is the name of the block type whose processing emitted the entry.
Error(msg, block) == [level |-> "error", msg |-> msg, block |-> block]
Warn(msg, block) == [level |-> "warn", msg |-> msg, block |-> block]
Call(fn, block) == [level |-> "call", msg |-> fn, block |-> block]
Dispatch(type) == [level |-> "dispatch", msg |-> type, block |-> ""]
Notice(msg, block) == [level |-> "deprecated", msg |-> msg, block |-> block]

MsgObject == "Block settings must be a valid object."
MsgSave == "The 'save' property must be a valid function."
MsgEdit == "The 'edit' property must be a valid function."
MsgTitle == "The block must have a title."
MsgTitleType == "Block titles must be strings."
MsgIcon == "The icon passed is invalid."
MsgCategory == "The block is registered with an invalid category."
MsgDescription == "Declaring non-string block descriptions"

Count(seq, level) == Cardinality({i \in 1..Len(seq) : seq[i].level = level})

(***************************************************************************)
(* Collaborators: the hook mechanism, is-plain-object and the icon helpers *)
(* of api/utils.                                                           *)
(***************************************************************************)
\* The callbacks a plugin may hook on 'blocks.registerBlockType'.
\*   wrapSave: ( settings ) => ( { ...settings, save: wrap( settings.save ) } ), where
\*             wrap( f ) is the function ( props ) => decorate( f?.( props ) )
\*   toArray:  ( settings ) => Object.assign( [], settings )
\*   toNull:   () => null
\*   toNumber: () => 42
\*   addContext: ( settings ) => ( { ...settings, usesContext: [ 'postId' ] } )
FilterKinds == {"wrapSave", "toArray", "toNull"}
MoreFilterKinds == FilterKinds \cup {"toNumber", "addContext"}

runFilter(kind, value) ==
    IF kind = "wrapSave"
    THEN Plain(Put(value.fields, "save", Fn("wrap(" \o Get(value.fields, "save").v \o ")")))
    ELSE IF kind = "addContext"
    THEN Plain(Put(value.fields, "usesContext", Obj("postId")))
    ELSE IF kind = "toArray" THEN ArrayOf(value.fields)
    ELSE IF kind = "toNumber" THEN Number
    ELSE Null

RECURSIVE applyFiltersFrom(_, _, _)
applyFiltersFrom(chain, i, value) ==
    IF i > Len(chain) THEN value
    ELSE applyFiltersFrom(chain, i + 1, runFilter(chain[i], value))

\* applyFilters( hookName, value, ...args ): every callback in order, each fed the previous result.
applyFilters(chain, value) == applyFiltersFrom(chain, 1, value)

isPlainObject(value) == value.kind = "object"

\* The keys a deprecation may declare (api/constants) and omit (api/utils).
DEPRECATED_ENTRY_KEYS == {"attributes", "supports", "save", "migrate", "isEligible"}
omit(object, keys) == [k \in DOMAIN ownEnumerable(object) \ keys |-> object[k]]

\* normalizeIconObject: a missing icon becomes the default icon, a valid renderer is
\* wrapped as { src }, anything else is handed back as it is (and so has no src).
BLOCK_ICON_DEFAULT == "block-default"
isValidIcon(src) == (src.t = "string" /\ src.v # "") \/ src.t = "function"
normalizeIconObject(icon) ==
    IF icon = Absent THEN Icon(BLOCK_ICON_DEFAULT)
    ELSE IF isValidIcon(icon) THEN Icon(icon.v)
    ELSE icon
iconSrc(icon) == IF icon.t = "object" THEN Str(icon.v) ELSE Absent

(***************************************************************************)
(* store/actions.js                                                        *)
(***************************************************************************)
LEGACY_CATEGORY_MAPPING == [common |-> "text", formatting |-> "text", layout |-> "design"]

\* Mutant: any defined value passes for a function.
isFunctionLoose(maybeFunc) == maybeFunc.t # "undefined"

isFunction(maybeFunc) == maybeFunc.t = "function"

\* LEGACY_CATEGORY_MAPPING.hasOwnProperty( settings.category ): the value is used as a
\* property key, a missing category reads as undefined.
hasLegacyCategory(settings) ==
    Get(settings, "category").t \in {"string", "number"}
        /\ Get(settings, "category").v \in DOMAIN LEGACY_CATEGORY_MAPPING

\* Mutant: the legacy mapping is not applied.
canonicalizeNothing(settings) == settings

\* Canonicalize legacy categories to equivalent fallback.
canonicalizeCategory(settings) ==
    IF hasLegacyCategory(settings)
    THEN Put(settings, "category", Str(LEGACY_CATEGORY_MAPPING[settings["category"].v]))
    ELSE settings

\* Mutant: every category passes for a known one.
hasInvalidCategoryNever(settings, cats) == FALSE

\* 'category' in settings && ! select.getCategories().some( ( { slug } ) => slug === settings.category )
hasInvalidCategory(settings, cats) ==
    Has(settings, "category")
        /\ ~ \E i \in 1..Len(cats) : Str(cats[i].slug) = settings["category"]

Accepted(settings, events) == [status |-> "accepted", settings |-> settings, events |-> events]
Rejected(events) == [status |-> "rejected", settings |-> EmptyObject, events |-> events]
Threw(events) == [status |-> "threw", settings |-> EmptyObject, events |-> events]

\* Mutant: the type of the title is checked before its presence.
finishBlockTypeTypeFirst(name, settings, events) ==
    IF Get(settings, "title").t # "string"
    THEN Rejected(events \o <<Error(MsgTitleType, name)>>)
    ELSE IF ~Has(settings, "title") \/ settings["title"] = Str("")
    THEN Rejected(events \o <<Error(MsgTitle, name)>>)
    ELSE LET withIcon == Put(settings, "icon", normalizeIconObject(Get(settings, "icon")))
         IN IF ~isValidIcon(iconSrc(withIcon["icon"]))
            THEN Rejected(events \o <<Error(MsgIcon, name)>>)
            ELSE Accepted(withIcon, events)

\* The title and icon checks and the return of the settings.
finishBlockType(name, settings, events) ==
    IF ~Has(settings, "title") \/ settings["title"] = Str("")
    THEN Rejected(events \o <<Error(MsgTitle, name)>>)
    ELSE IF settings["title"].t # "string"
    THEN Rejected(events \o <<Error(MsgTitleType, name)>>)
    ELSE LET withIcon == Put(settings, "icon", normalizeIconObject(Get(settings, "icon")))
         IN IF ~isValidIcon(iconSrc(withIcon["icon"]))
            THEN Rejected(events \o <<Error(MsgIcon, name)>>)
            ELSE Accepted(withIcon, events)

\* Mutant: the warning about an unknown category comes after the title and icon checks.
normalizeCategoryLate(name, settings, cats, events) ==
    LET mapped == canonicalizeCategory(settings)
        finished == finishBlockType(name, Delete(mapped, "category"), events)
    IN IF hasInvalidCategory(mapped, cats)
       THEN [finished EXCEPT !.events = @ \o <<Warn(MsgCategory, name)>>]
       ELSE finishBlockType(name, mapped, events)

\* Mutant: an unknown category is warned about and kept.
normalizeCategoryWarnOnly(name, settings, cats, events) ==
    LET mapped == canonicalizeCategory(settings)
    IN IF hasInvalidCategory(mapped, cats)
       THEN finishBlockType(name, mapped, events \o <<Warn(MsgCategory, name)>>)
       ELSE finishBlockType(name, mapped, events)

\* The legacy mapping and the removal of an unknown category.
normalizeCategory(name, settings, cats, events) ==
    LET mapped == canonicalizeCategory(settings)
    IN IF hasInvalidCategory(mapped, cats)
       THEN finishBlockType(name, Delete(mapped, "category"),
                            events \o <<Warn(MsgCategory, name)>>)
       ELSE finishBlockType(name, mapped, events)

\* Mutant: the save check is gone.
checkSettingsSaveOptional(name, settings, cats, events) ==
    IF ~isPlainObject(settings)
    THEN Rejected(events \o <<Error(MsgObject, name)>>)
    ELSE IF Has(settings.fields, "edit") /\ ~isFunction(settings.fields["edit"])
    THEN Rejected(events \o <<Error(MsgEdit, name)>>)
    ELSE normalizeCategory(name, settings.fields, cats, events)

\* The plain-object, save and edit checks (lines 106-118), then the rest.
checkSettings(name, settings, cats, events) ==
    IF ~isPlainObject(settings)
    THEN Rejected(events \o <<Error(MsgObject, name)>>)
    ELSE IF ~isFunction(Get(settings.fields, "save"))
    THEN Rejected(events \o <<Error(MsgSave, name)>>)
    ELSE IF Has(settings.fields, "edit") /\ ~isFunction(settings.fields["edit"])
    THEN Rejected(events \o <<Error(MsgEdit, name)>>)
    ELSE normalizeCategory(name, settings.fields, cats, events)

\* Mutant: the deprecation is laid over the whole block type.
mergeDeprecationKeepAll(blockType, deprecation) ==
    [k \in DOMAIN ownEnumerable(blockType) \cup DOMAIN deprecation |->
        IF k \in DOMAIN deprecation THEN deprecation[k] ELSE blockType[k]]

\* { ...omit( blockType, DEPRECATED_ENTRY_KEYS ), ...deprecation }
mergeDeprecation(blockType, deprecation) ==
    LET base == omit(blockType, DEPRECATED_ENTRY_KEYS)
    IN [k \in DOMAIN base \cup DOMAIN deprecation |->
           IF k \in DOMAIN deprecation THEN deprecation[k] ELSE base[k]]

\* Mutant: every key of the filtered deprecation is kept.
keepEveryKey(object) == object

\* Object.fromEntries( Object.entries( ... ).filter( ( [ key ] ) =>
\*     DEPRECATED_ENTRY_KEYS.includes( key ) ) )
onlyDeprecationKeys(object) == [k \in DOMAIN object \cap DEPRECATED_ENTRY_KEYS |-> object[k]]

\* settings.deprecated.map( ... ) from entry i on: [threw, entries, events].  A chain
\* that hands back null for a deprecation makes Object.entries throw.
RECURSIVE mapDeprecatedFrom(_, _, _, _)
mapDeprecatedFrom(blockType, deprecated, i, chain) ==
    IF i > Len(deprecated) THEN [threw |-> FALSE, entries |-> <<>>, events |-> <<>>]
    ELSE LET filtered == applyFilters(chain, Plain(mergeDeprecation(blockType, deprecated[i])))
             called == <<Call("applyFilters", blockType["name"].v)>>
             rest == mapDeprecatedFrom(blockType, deprecated, i + 1, chain)
         IN IF filtered.kind = "null"
            THEN [threw |-> TRUE, entries |-> <<>>, events |-> called]
            ELSE [threw |-> rest.threw,
                  entries |-> <<onlyDeprecationKeys(filtered.fields)>> \o rest.entries,
                  events |-> called \o rest.events]

\* if ( settings.deprecated ) { settings.deprecated = settings.deprecated.map( ... ) }:
\* [threw, fields, events].  A truthy value that is no array has no map to call.
processDeprecated(blockType, fields, chain) ==
    LET deprecated == Get(fields, "deprecated")
        mapped == mapDeprecatedFrom(blockType, deprecated.v, 1, chain)
    IN IF ~truthy(deprecated)
       THEN [threw |-> FALSE, fields |-> fields, events |-> <<>>]
       ELSE IF deprecated.t # "array"
       THEN [threw |-> TRUE, fields |-> fields, events |-> <<>>]
       ELSE [threw |-> mapped.threw,
             fields |-> Put(fields, "deprecated", Arr(mapped.entries)),
             events |-> mapped.events]

\* The notice for a description that is no string (lines 76-80).
noticeDescription(name, fields) ==
    IF truthy(Get(fields, "description")) /\ Get(fields, "description").t # "string"
    THEN <<Notice(MsgDescription, name)>>
    ELSE <<>>

\* The filters get { ...blockType }.  Reading settings.description throws when they
\* handed back null.
processBlockType(blockType, cats, chain) ==
    LET name == blockType["name"].v
        settings == applyFilters(chain, Plain(ownEnumerable(blockType)))
        events == <<Call("applyFilters", name)>> \o noticeDescription(name, settings.fields)
        mapped == processDeprecated(blockType, settings.fields, chain)
    IN IF settings.kind = "null"
       THEN Threw(<<Call("applyFilters", name)>>)
       ELSE IF mapped.threw
       THEN Threw(events \o mapped.events)
       ELSE checkSettings(name, [kind |-> settings.kind, fields |-> mapped.fields], cats,
                          events \o mapped.events)

\* Mutant: the filters get the block type itself, not a copy, so what an accepted pass
\* wrote to the settings is written to the object handed in.
argumentWrittenTo(blockType, result) ==
    IF result.status = "accepted" THEN result.settings ELSE blockType

\* The object handed in, as processBlockType leaves it.  The settings are a copy
\* ( { ...blockType }, line 71 ) and lines 83-150 assign to and delete from the
\* settings only, so the object handed in, which is the one the raw log holds, keeps
\* every key and value.
argumentAfter(blockType, result) == blockType

\* Action creators.  An argument that may be one item or an array of items is
\* given as One(item) or Many(items).
One(item) == [isArray |-> FALSE, items |-> <<item>>]
Many(items) == [isArray |-> TRUE, items |-> items]

\* Mutant: a single block type is not wrapped into an array and is lost.
addBlockTypesArrayOnly(arg) ==
    [type |-> "ADD_BLOCK_TYPES", blockTypes |-> IF arg.isArray THEN arg.items ELSE <<>>]

addBlockTypes(arg) == [type |-> "ADD_BLOCK_TYPES", blockTypes |-> arg.items]

\* Mutant: of an array of names only the first is kept.
removeBlockTypesFirstOnly(arg) ==
    [type |-> "REMOVE_BLOCK_TYPES", names |-> <<arg.items[1]>>]

removeBlockTypes(arg) == [type |-> "REMOVE_BLOCK_TYPES", names |-> arg.items]

setCategories(cats) == [type |-> "SET_CATEGORIES", categories |-> cats]

\* Mutant: the slug given is dropped for the slug of the first default category.
updateCategoryOfText(slug, category) ==
    [type |-> "UPDATE_CATEGORY", slug |-> "text", category |-> category]

updateCategory(slug, category) == [type |-> "UPDATE_CATEGORY", slug |-> slug, category |-> category]

(***************************************************************************)
(* The reducers that apply the dispatched actions (store/reducer.js).      *)
(***************************************************************************)
NameOf(blockType) == blockType["name"].v
Range(seq) == {seq[i] : i \in 1..Len(seq)}
UnprocessedNames == {NameOf(unprocessedBlockTypes[i]) : i \in 1..Len(unprocessedBlockTypes)}

\* ADD_UNPROCESSED_BLOCK_TYPE: { ...state, [ name ]: blockType }; a key that is
\* already there keeps its place.
addUnprocessed(state, blockType) ==
    IF \E i \in 1..Len(state) : NameOf(state[i]) = NameOf(blockType)
    THEN [i \in 1..Len(state) |->
            IF NameOf(state[i]) = NameOf(blockType) THEN blockType ELSE state[i]]
    ELSE Append(state, blockType)

\* ADD_BLOCK_TYPES: upsert by name, later entries of the batch win.
RECURSIVE upsertFrom(_, _, _)
upsertFrom(state, batch, i) ==
    IF i > Len(batch) THEN state
    ELSE upsertFrom(Put(state, NameOf(batch[i]), batch[i]), batch, i + 1)
reduceAddBlockTypes(state, action) == upsertFrom(state, action.blockTypes, 1)

\* REMOVE_BLOCK_TYPES: delete the given keys from the processed map.
reduceRemoveBlockTypes(state, action) ==
    [n \in DOMAIN state \ Range(action.names) |-> state[n]]

\* SET_CATEGORIES: replace the whole list.
reduceSetCategories(state, action) == action.categories

\* UPDATE_CATEGORY: merge the partial into the category with that slug, if any.
reduceUpdateCategory(state, action) ==
    IF DOMAIN action.category = {} THEN state
    ELSE [i \in 1..Len(state) |->
            IF state[i].slug = action.slug
            THEN [k \in DOMAIN state[i] \cup DOMAIN action.category |->
                    IF k \in DOMAIN action.category THEN action.category[k] ELSE state[i][k]]
            ELSE state[i]]

(***************************************************************************)
(* The thunks.                                                             *)
(***************************************************************************)
\* What `last` records: the operation, its argument, how it ended ("accepted",
\* "rejected", "threw", or "done"), what it emitted in order, the block types of the
\* ADD_BLOCK_TYPES it dispatched, and whether it repeats the operation before it.
Outcome(op, blockType, status, events, batch) ==
    [op |-> op, blockType |-> blockType, status |-> status, events |-> events,
     batch |-> batch,
     again |-> op \in {"register", "reapply"} /\ last.op = op /\ last.blockType = blockType]

\* Mutant: the early return on a missing result is gone, the raw block type is stored instead.
registerWithoutReturn(blockType) ==
    LET processedBlockType == processBlockType(blockType, categories, filters)
        recorded == <<Dispatch("ADD_UNPROCESSED_BLOCK_TYPE")>> \o processedBlockType.events
        stored == IF processedBlockType.status = "accepted"
                  THEN processedBlockType.settings ELSE blockType
    IN /\ unprocessedBlockTypes' = addUnprocessed(unprocessedBlockTypes, blockType)
       /\ IF processedBlockType.status = "threw"
          THEN /\ blockTypes' = blockTypes
               /\ last' = Outcome("register", blockType, "threw", recorded, <<>>)
          ELSE /\ blockTypes' = reduceAddBlockTypes(blockTypes, addBlockTypes(One(stored)))
               /\ last' = Outcome("register", blockType, processedBlockType.status,
                                  recorded \o <<Dispatch("ADD_BLOCK_TYPES")>>, <<stored>>)
       /\ UNCHANGED <<categories, filters>>

\* Mutant: the raw block type is recorded after processing, and only when it was accepted.
registerThenRecord(blockType) ==
    LET processedBlockType == processBlockType(blockType, categories, filters)
    IN /\ IF processedBlockType.status # "accepted"
          THEN /\ UNCHANGED <<unprocessedBlockTypes, blockTypes>>
               /\ last' = Outcome("register", blockType, processedBlockType.status,
                                  processedBlockType.events, <<>>)
          ELSE /\ unprocessedBlockTypes' = addUnprocessed(unprocessedBlockTypes, blockType)
               /\ blockTypes' = reduceAddBlockTypes(blockTypes,
                                    addBlockTypes(One(processedBlockType.settings)))
               /\ last' = Outcome("register", blockType, "accepted",
                                  processedBlockType.events
                                      \o <<Dispatch("ADD_UNPROCESSED_BLOCK_TYPE"),
                                           Dispatch("ADD_BLOCK_TYPES")>>,
                                  <<processedBlockType.settings>>)
       /\ UNCHANGED <<categories, filters>>

__experimentalRegisterBlockType(blockType) ==
    LET processedBlockType == processBlockType(blockType, categories, filters)
        recorded == <<Dispatch("ADD_UNPROCESSED_BLOCK_TYPE")>> \o processedBlockType.events
    IN /\ unprocessedBlockTypes' = addUnprocessed(unprocessedBlockTypes,
                                         argumentAfter(blockType, processedBlockType))
       /\ IF processedBlockType.status # "accepted"
          THEN /\ blockTypes' = blockTypes
               /\ last' = Outcome("register", blockType, processedBlockType.status,
                                  recorded, <<>>)
          ELSE /\ blockTypes' = reduceAddBlockTypes(blockTypes,
                                    addBlockTypes(One(processedBlockType.settings)))
               /\ last' = Outcome("register", blockType, "accepted",
                                  recorded \o <<Dispatch("ADD_BLOCK_TYPES")>>,
                                  <<processedBlockType.settings>>)
       /\ UNCHANGED <<categories, filters>>

\* Object.keys( unprocessedBlockTypes ).reduce( ... ): [threw, accumulator, events]
RECURSIVE reprocessFrom(_, _, _, _)
reprocessFrom(raw, i, cats, chain) ==
    IF i > Len(raw) THEN [threw |-> FALSE, accumulator |-> <<>>, events |-> <<>>]
    ELSE LET result == processBlockType(raw[i], cats, chain)
             rest == reprocessFrom(raw, i + 1, cats, chain)
         IN IF result.status = "threw"
            THEN [threw |-> TRUE, accumulator |-> <<>>, events |-> result.events]
            ELSE [threw |-> rest.threw,
                  accumulator |-> IF result.status = "accepted"
                                  THEN <<result.settings>> \o rest.accumulator
                                  ELSE rest.accumulator,
                  events |-> result.events \o rest.events]

\* The pass of the mutants below: `source` is what each raw entry is processed from,
\* `skip` the names left out of the pass.
RECURSIVE reprocessVia(_, _, _, _, _, _)
reprocessVia(raw, i, cats, chain, source, skip) ==
    IF i > Len(raw) THEN [threw |-> FALSE, accumulator |-> <<>>, events |-> <<>>]
    ELSE IF NameOf(raw[i]) \in skip THEN reprocessVia(raw, i + 1, cats, chain, source, skip)
    ELSE LET result == processBlockType(source[NameOf(raw[i])], cats, chain)
             rest == reprocessVia(raw, i + 1, cats, chain, source, skip)
         IN IF result.status = "threw"
            THEN [threw |-> TRUE, accumulator |-> <<>>, events |-> result.events]
            ELSE [threw |-> rest.threw,
                  accumulator |-> IF result.status = "accepted"
                                  THEN <<result.settings>> \o rest.accumulator
                                  ELSE rest.accumulator,
                  events |-> result.events \o rest.events]

commitPass(pass, removed) ==
    /\ IF pass.threw
       THEN /\ blockTypes' = blockTypes
            /\ last' = Outcome("reapply", EmptyObject, "threw", pass.events, <<>>)
       ELSE IF Len(pass.accumulator) = 0
       THEN /\ blockTypes' = [n \in DOMAIN blockTypes \ removed |-> blockTypes[n]]
            /\ last' = Outcome("reapply", EmptyObject, "done", pass.events, <<>>)
       ELSE /\ blockTypes' = reduceAddBlockTypes(
                                 [n \in DOMAIN blockTypes \ removed |-> blockTypes[n]],
                                 addBlockTypes(Many(pass.accumulator)))
            /\ last' = Outcome("reapply", EmptyObject, "done",
                               pass.events \o <<Dispatch("ADD_BLOCK_TYPES")>>,
                               pass.accumulator)
    /\ UNCHANGED <<unprocessedBlockTypes, categories, filters>>

RawByName == [n \in UnprocessedNames |->
                CHOOSE b \in Range(unprocessedBlockTypes) : NameOf(b) = n]

\* Mutant: a block type that is registered is processed again from its processed
\* settings instead of its raw ones.
reapplyFromProcessed ==
    commitPass(reprocessVia(unprocessedBlockTypes, 1, categories, filters,
                            [n \in UnprocessedNames |->
                                IF n \in DOMAIN blockTypes THEN blockTypes[n]
                                ELSE RawByName[n]],
                            {}),
               {})

\* Mutant: a block type that is registered already is left out of the pass.
reapplySkipRegistered ==
    commitPass(reprocessVia(unprocessedBlockTypes, 1, categories, filters, RawByName,
                            DOMAIN blockTypes),
               {})

\* Mutant: a block type that the pass does not accept is removed from the processed map.
reapplyDroppingRejected ==
    LET pass == reprocessVia(unprocessedBlockTypes, 1, categories, filters, RawByName, {})
    IN commitPass(pass, IF pass.threw THEN {}
                        ELSE UnprocessedNames \ {NameOf(b) : b \in Range(pass.accumulator)})

\* Mutant: only the block types that have a processed entry are processed again.
reapplyOnlyRegistered ==
    commitPass(reprocessVia(unprocessedBlockTypes, 1, categories, filters, RawByName,
                            UnprocessedNames \ DOMAIN blockTypes),
               {})

__experimentalReapplyBlockTypeFilters ==
    LET pass == reprocessFrom(unprocessedBlockTypes, 1, categories, filters)
        processedBlockTypes == pass.accumulator
    IN /\ IF pass.threw
          THEN /\ blockTypes' = blockTypes
               /\ last' = Outcome("reapply", EmptyObject, "threw", pass.events, <<>>)
          ELSE IF Len(processedBlockTypes) = 0
          THEN /\ blockTypes' = blockTypes
               /\ last' = Outcome("reapply", EmptyObject, "done", pass.events, <<>>)
          ELSE /\ blockTypes' = reduceAddBlockTypes(blockTypes,
                                    addBlockTypes(Many(processedBlockTypes)))
               /\ last' = Outcome("reapply", EmptyObject, "done",
                                  pass.events \o <<Dispatch("ADD_BLOCK_TYPES")>>,
                                  processedBlockTypes)
       /\ unprocessedBlockTypes' =
              [i \in DOMAIN unprocessedBlockTypes |->
                  argumentAfter(unprocessedBlockTypes[i],
                                processBlockType(unprocessedBlockTypes[i], categories, filters))]
       /\ UNCHANGED <<categories, filters>>

(***************************************************************************)
(* Inputs.                                                                 *)
(***************************************************************************)
Names == {"core/a", "core/b"}

\* A block type object: the keys given Absent are left out.
BlockType(name, save, edit, title, icon, category) ==
    LET all == [name |-> Str(name), save |-> save, edit |-> edit, title |-> title,
                icon |-> icon, category |-> category]
    IN [k \in {x \in DOMAIN all : all[x] # Absent} |-> all[k]]

SaveValues == {Absent, Fn("save"), Str("markup")}
EditValues == {Absent, Fn("edit"), Str("edit")}
TitleValues == {Absent, Str(""), Str("Title"), Num("1")}
IconValues == {Absent, Str("star"), Num("0")}
CategoryValues == {Absent, Str("common"), Str("formatting"), Str("layout"),
                   Str("text"), Str("custom")}

\* Every block type over the values above, for the single-call specification.
AllBlockTypes ==
    {BlockType("core/a", s, e, t, i, c) :
        s \in SaveValues, e \in EditValues, t \in TitleValues, i \in IconValues,
        c \in CategoryValues}

\* The block types the registry specification registers.
Pool ==
    {BlockType("core/a", Fn("save"), Fn("edit"), Str("Title"), Absent, Str("custom")),
     BlockType("core/a", Fn("save"), Absent, Str("Title"), Str("star"), Str("common")),
     BlockType("core/a", Absent, Absent, Str("Title"), Absent, Str("custom")),
     BlockType("core/b", Fn("save"), Fn("edit"), Str("Title"), Str("star"), Str("layout"))}

Category(slug) == [slug |-> slug, title |-> slug]
Slugs == {"text", "custom"}
DEFAULT_CATEGORIES == <<Category("text"), Category("design")>>
CategoryLists == {<<>>, DEFAULT_CATEGORIES, <<Category("text"), Category("custom")>>}
CategoryPatches == {[title |-> "Renamed"]}

(***************************************************************************)
(* Operations.                                                             *)
(***************************************************************************)
Register == \E blockType \in Pool : __experimentalRegisterBlockType(blockType)

Reapply == __experimentalReapplyBlockTypeFilters

\* What removeBlockTypes is called with: one name, or an array of names.
Removals == {One(name) : name \in Names} \cup {Many(<<"core/a", "core/b">>)}

RemoveBlockTypes ==
    \E names \in Removals :
        /\ blockTypes' = reduceRemoveBlockTypes(blockTypes, removeBlockTypes(names))
        /\ last' = Outcome("remove", [names |-> names], "done",
                           <<Dispatch("REMOVE_BLOCK_TYPES")>>, <<>>)
        /\ UNCHANGED <<unprocessedBlockTypes, categories, filters>>

SetCategories ==
    \E cats \in CategoryLists :
        /\ categories' = reduceSetCategories(categories, setCategories(cats))
        /\ last' = Outcome("setCategories", EmptyObject, "done",
                           <<Dispatch("SET_CATEGORIES")>>, <<>>)
        /\ UNCHANGED <<unprocessedBlockTypes, blockTypes, filters>>

UpdateCategory ==
    \E slug \in Slugs, patch \in CategoryPatches :
        /\ categories' = reduceUpdateCategory(categories, updateCategory(slug, patch))
        /\ last' = Outcome("updateCategory", [name |-> Str(slug)], "done",
                           <<Dispatch("UPDATE_CATEGORY")>>, <<>>)
        /\ UNCHANGED <<unprocessedBlockTypes, blockTypes, filters>>

\* addFilter( 'blocks.registerBlockType', namespace, callback )
AddFilter ==
    \E kind \in FilterKinds :
        /\ Len(filters) < MaxFilters
        /\ filters' = Append(filters, kind)
        /\ last' = Outcome("addFilter", EmptyObject, "done", <<>>, <<>>)
        /\ UNCHANGED <<unprocessedBlockTypes, blockTypes, categories>>

\* removeAllFilters( 'blocks.registerBlockType' )
RemoveAllFilters ==
    /\ filters # <<>>
    /\ filters' = <<>>
    /\ last' = Outcome("removeAllFilters", EmptyObject, "done", <<>>, <<>>)
    /\ UNCHANGED <<unprocessedBlockTypes, blockTypes, categories>>

Init ==
    /\ unprocessedBlockTypes = <<>>
    /\ blockTypes = EmptyObject
    /\ categories = DEFAULT_CATEGORIES
    /\ filters = <<>>
    /\ last = [op |-> "init", blockType |-> EmptyObject, status |-> "done", events |-> <<>>,
               batch |-> <<>>, again |-> FALSE]

Next ==
    \/ Register
    \/ Reapply
    \/ RemoveBlockTypes
    \/ SetCategories
    \/ UpdateCategory
    \/ AddFilter
    \/ RemoveAllFilters

Spec == Init /\ [][Next]_vars

(***************************************************************************)
(* One call of __experimentalRegisterBlockType, over every block type of   *)
(* AllBlockTypes, from a store in which any list of CategoryLists was set, *)
(* any chain of filters was hooked and at most one block type of Pool was  *)
(* registered since.                                                       *)
(***************************************************************************)
Chains == UNION {[1..n -> FilterKinds] : n \in 0..MaxFilters}
Priors == {<<>>} \cup {<<blockType>> : blockType \in Pool}

InitProcess ==
    \E cats \in CategoryLists, chain \in Chains, prior \in Priors :
        LET pass == reprocessFrom(prior, 1, cats, chain)
        IN /\ unprocessedBlockTypes = prior
           /\ blockTypes = IF pass.threw THEN EmptyObject
                           ELSE reduceAddBlockTypes(EmptyObject,
                                    addBlockTypes(Many(pass.accumulator)))
           /\ categories = cats
           /\ filters = chain
           /\ last = [op |-> "init", blockType |-> EmptyObject, status |-> "done",
                      events |-> <<>>, batch |-> <<>>, again |-> FALSE]

RegisterOnce ==
    /\ last.op = "init"
    /\ \E blockType \in AllBlockTypes : __experimentalRegisterBlockType(blockType)

NextProcess == RegisterOnce

SpecProcess == InitProcess /\ [][NextProcess]_vars

(***************************************************************************)
(* One call of __experimentalRegisterBlockType and one reapply pass after  *)
(* it, over block types that declare supports, a description and a list of *)
(* deprecations, submitted as plain objects or as arrays or functions that *)
(* carry the same properties, under any chain of MoreFilterKinds.          *)
(***************************************************************************)
\* A deprecation: the keys given Absent are left out.
Deprecation(save, supports, title) ==
    LET all == [save |-> save, supports |-> supports, title |-> title]
    IN [k \in {x \in DOMAIN all : all[x] # Absent} |-> all[k]]

Deprecations ==
    {Deprecation(Fn("saveV1"), Absent, Absent),
     Deprecation(Absent, Obj("anchor"), Absent),
     Deprecation(Fn("saveV2"), Absent, Str("Old")),
     Deprecation(Absent, Absent, Absent)}

DeprecatedValues ==
    {Absent} \cup {Arr(d) : d \in UNION {[1..n -> Deprecations] : n \in 0..MaxDeprecated}}

\* A submitted block type with title 'Title': the keys given Absent are left out, and
\* so is the slot ClassSlot of a plain object.
Candidate(class, save, supports, description, category, deprecated) ==
    LET all == [name |-> Str("core/a"), title |-> Str("Title"), save |-> save,
                supports |-> supports, description |-> description,
                category |-> category, deprecated |-> deprecated]
        fields == [k \in {x \in DOMAIN all : all[x].t # "undefined"} |-> all[k]]
    IN IF class = "Object" THEN fields ELSE Put(fields, ClassSlot, Str(class))

Classes == {"Object", "Array", "Function"}

Candidates ==
    {Candidate(class, save, supports, description, category, deprecated) :
        class \in Classes, save \in {Absent, Fn("save")},
        supports \in {Absent, Obj("align")}, description \in {Absent, Obj("element")},
        category \in {Absent, Str("common")}, deprecated \in DeprecatedValues}

MoreChains == UNION {[1..n -> MoreFilterKinds] : n \in 0..MaxFilters}

InitShapes ==
    \E chain \in MoreChains :
        /\ unprocessedBlockTypes = <<>>
        /\ blockTypes = EmptyObject
        /\ categories = DEFAULT_CATEGORIES
        /\ filters = chain
        /\ last = [op |-> "init", blockType |-> EmptyObject, status |-> "done",
                   events |-> <<>>, batch |-> <<>>, again |-> FALSE]

RegisterShape ==
    /\ last.op = "init"
    /\ \E blockType \in Candidates : __experimentalRegisterBlockType(blockType)

ReapplyShape ==
    /\ last.op = "register"
    /\ __experimentalReapplyBlockTypeFilters

NextShapes == RegisterShape \/ ReapplyShape

SpecShapes == InitShapes /\ [][NextShapes]_vars

(***************************************************************************)
(* Properties.                                                             *)
(***************************************************************************)
LastName == NameOf(last.blockType)
Registered == last.op = "register"
Emitted(e) == e \in Range(last.events)
KnownSlugs == {categories[i].slug : i \in 1..Len(categories)}
Callable(value) == value.t = "function"

\* C1: a registration that the validator rejects dispatches no ADD_BLOCK_TYPES and
\* leaves the processed map exactly as it was, while the raw log holds the candidate.
C1_RejectedStoresNothing ==
    [][(last'.op = "register" /\ last'.status = "rejected")
        => /\ blockTypes' = blockTypes
           /\ Dispatch("ADD_BLOCK_TYPES") \notin Range(last'.events)
           /\ last'.batch = <<>>
           /\ last'.blockType \in Range(unprocessedBlockTypes')]_vars

\* A rejected registration (here on the icon) next to an entry accepted earlier.
C1_Witness ==
    /\ Registered /\ last.status = "rejected"
    /\ Emitted(Error(MsgIcon, LastName))
    /\ DOMAIN blockTypes # {}
    /\ last.blockType \in Range(unprocessedBlockTypes)

\* C2 as stated, in the case where no filter is hooked: a candidate whose save is absent
\* or not callable is rejected for its save, and its name is no key of the processed
\* map after the call.
C2_Original ==
    (Registered /\ filters = <<>> /\ ~Callable(Get(last.blockType, "save")))
        => /\ last.status = "rejected"
           /\ Emitted(Error(MsgSave, LastName))
           /\ LastName \notin DOMAIN blockTypes

\* C2, amended: when the settings the filters hand back are a plain object whose save
\* is absent or not callable, the registration is rejected for its save and the
\* processed map is left as it was (so the name is a key after the call only if it
\* was one before).
C2_SaveRequired ==
    [][(/\ last'.op = "register"
        /\ applyFilters(filters, Plain(last'.blockType)).kind = "object"
        /\ ~Callable(Get(applyFilters(filters, Plain(last'.blockType)).fields, "save")))
        => /\ last'.status = "rejected"
           /\ Error(MsgSave, NameOf(last'.blockType)) \in Range(last'.events)
           /\ Count(last'.events, "error") = 1
           /\ blockTypes' = blockTypes]_vars

\* A candidate without a callable save is rejected while the entry registered earlier
\* under its name stays in the processed map.
C2_Witness ==
    /\ Registered /\ ~Callable(Get(last.blockType, "save"))
    /\ last.status = "rejected" /\ Emitted(Error(MsgSave, LastName))
    /\ LastName \in DOMAIN blockTypes

\* C3: every registration dispatches ADD_UNPROCESSED_BLOCK_TYPE first, before the
\* filters run and before any diagnostic or ADD_BLOCK_TYPES, whatever its outcome, and
\* the raw log then holds the candidate as submitted.
C3_RawRecordedFirst ==
    Registered
        => /\ Len(last.events) >= 2
           /\ last.events[1] = Dispatch("ADD_UNPROCESSED_BLOCK_TYPE")
           /\ last.events[2] = Call("applyFilters", LastName)
           /\ \A i \in 2..Len(last.events) :
                  last.events[i] # Dispatch("ADD_UNPROCESSED_BLOCK_TYPE")
           /\ \E i \in 1..Len(unprocessedBlockTypes) :
                  unprocessedBlockTypes[i] = last.blockType

\* A rejected registration whose candidate is in the raw log and not in the processed map.
C3_Witness ==
    /\ Registered /\ last.status = "rejected"
    /\ last.events[1] = Dispatch("ADD_UNPROCESSED_BLOCK_TYPE")
    /\ last.blockType \in Range(unprocessedBlockTypes)
    /\ LastName \notin DOMAIN blockTypes

LegacySlugs == {"common", "formatting", "layout"}
LegacyTarget(slug) == IF slug = "layout" THEN "design" ELSE "text"
MappedSlug(slug) == IF slug \in LegacySlugs THEN LegacyTarget(slug) ELSE slug
HasLegacyCategory(obj) == Has(obj, "category") /\ obj["category"].v \in LegacySlugs
HasUnknownCategory(obj) == Has(obj, "category") /\ MappedSlug(obj["category"].v) \notin KnownSlugs
EditOk(obj) == ~Has(obj, "edit") \/ Callable(obj["edit"])
TitleOk(obj) == Has(obj, "title") /\ obj["title"].t = "string" /\ obj["title"].v # ""
IconOk(obj) ==
    \/ ~Has(obj, "icon")
    \/ obj["icon"].t = "function"
    \/ (obj["icon"].t = "string" /\ obj["icon"].v # "")
ValidShape(obj) == Callable(Get(obj, "save")) /\ EditOk(obj) /\ TitleOk(obj) /\ IconOk(obj)

\* C4 as stated, in the case where no filter is hooked: an accepted candidate of
\* category common, formatting or layout is stored with category text, text or design,
\* whatever the list of known categories.
C4_Original ==
    (Registered /\ filters = <<>> /\ last.status = "accepted"
        /\ HasLegacyCategory(last.blockType))
        => Get(last.batch[1], "category")
               = Str(LegacyTarget(last.blockType["category"].v))

\* C4, amended: an accepted candidate whose settings, as the filters hand them back,
\* have category common, formatting or layout is stored with category text, text or
\* design when that slug is the slug of a known category, and with no category otherwise.
C4_LegacyMapped ==
    (Registered /\ last.status = "accepted"
        /\ HasLegacyCategory(applyFilters(filters, Plain(last.blockType)).fields))
        => LET target == LegacyTarget(
                   applyFilters(filters, Plain(last.blockType)).fields["category"].v)
           IN /\ blockTypes[LastName] = last.batch[1]
              /\ IF target \in KnownSlugs
                 THEN Get(last.batch[1], "category") = Str(target)
                 ELSE ~Has(last.batch[1], "category")

\* A candidate of category layout stored with category design.
C4_Witness ==
    /\ Registered /\ last.status = "accepted"
    /\ Get(last.blockType, "category") = Str("layout")
    /\ Get(blockTypes[LastName], "category") = Str("design")

BatchNames == {NameOf(last.batch[i]) : i \in 1..Len(last.batch)}
CategoryKnownOrAbsent(obj) == ~Has(obj, "category") \/ obj["category"].v \in KnownSlugs

\* C6 as stated: in every reachable state each definition of the processed map has no
\* category or the slug of a category of the current list.
C6_Original == \A n \in DOMAIN blockTypes : CategoryKnownOrAbsent(blockTypes[n])

\* C6, amended: each definition that a registration or a reapply pass commits has, when
\* it is committed, no category or the slug of a category of the list as it is then;
\* setting the categories later does not revisit the definitions committed before.
C6_CategoryKnownAtCommit ==
    last.op \in {"register", "reapply"}
        => \A i \in 1..Len(last.batch) :
              /\ CategoryKnownOrAbsent(last.batch[i])
              /\ blockTypes[NameOf(last.batch[i])] = last.batch[i]

\* A pass that commits one definition with a known category and one stripped of its own.
C6_Witness ==
    /\ last.op = "reapply"
    /\ \E i \in 1..Len(last.batch) : Has(last.batch[i], "category")
    /\ \E i \in 1..Len(last.batch) :
          /\ ~Has(last.batch[i], "category")
          /\ Has(RawByName[NameOf(last.batch[i])], "category")

\* C7: registering the same accepted candidate again, with nothing in between, leaves
\* its name mapped to the result of the second registration and the processed map as a
\* whole as the first registration left it; and no registration touches the entry of
\* another name.
C7_RegisterTwice ==
    [][/\ (last.op = "register" /\ last.status = "accepted"
            /\ last'.op = "register" /\ last'.again)
          => /\ last'.status = "accepted"
             /\ NameOf(last'.blockType) \in DOMAIN blockTypes'
             /\ blockTypes'[NameOf(last'.blockType)] = last'.batch[1]
             /\ last'.batch = last.batch
             /\ blockTypes' = blockTypes
       /\ last'.op = "register"
          => /\ DOMAIN blockTypes' \ {NameOf(last'.blockType)}
                  = DOMAIN blockTypes \ {NameOf(last'.blockType)}
             /\ \A n \in DOMAIN blockTypes \ {NameOf(last'.blockType)} :
                    blockTypes'[n] = blockTypes[n]]_vars

\* The second of two identical registrations, next to an entry of another name.
C7_Witness ==
    /\ Registered /\ last.again /\ last.status = "accepted"
    /\ blockTypes[LastName] = last.batch[1]
    /\ DOMAIN blockTypes = Names

\* C8: a reapply pass run right after a reapply pass leaves the processed map as the
\* first pass left it.
C8_ReapplyTwice ==
    [][(last.op = "reapply" /\ last'.op = "reapply")
        => (blockTypes' = blockTypes /\ last'.batch = last.batch
              /\ last'.status = last.status)]_vars

\* The second of two passes in a row, committing settings a filter rewrote.
C8_Witness ==
    /\ last.op = "reapply" /\ last.again
    /\ filters = <<"wrapSave">>
    /\ last.batch # <<>>
    /\ \A n \in BatchNames : blockTypes[n]["save"] # Get(RawByName[n], "save")

\* C9: after a reapply pass, every raw block type of category custom that passes the
\* validator while custom is a known category is in the processed map with category
\* custom, and the pass emitted no invalid-category warning for it.
C9_CategoryRecovered ==
    (last.op = "reapply" /\ last.status = "done" /\ "custom" \in KnownSlugs)
        => \A b \in Range(unprocessedBlockTypes) :
              (/\ applyFilters(filters, Plain(b)).kind = "object"
               /\ ValidShape(applyFilters(filters, Plain(b)).fields)
               /\ Get(applyFilters(filters, Plain(b)).fields, "category") = Str("custom"))
                => /\ NameOf(b) \in DOMAIN blockTypes
                   /\ Get(blockTypes[NameOf(b)], "category") = Str("custom")
                   /\ Warn(MsgCategory, NameOf(b)) \notin Range(last.events)

\* A pass after which a block type of category custom is stored with that category.
C9_Witness ==
    /\ last.op = "reapply" /\ last.status = "done" /\ "custom" \in KnownSlugs
    /\ \E b \in Range(unprocessedBlockTypes) :
          /\ Get(b, "category") = Str("custom")
          /\ NameOf(b) \in BatchNames
          /\ Get(blockTypes[NameOf(b)], "category") = Str("custom")
    /\ Count(last.events, "warn") = 0

\* C10: a raw entry that a reapply pass rejects is not in the batch the pass commits and
\* its entry in the processed map, if any, is as it was; a pass that rejects every raw
\* entry dispatches nothing.
C10_RejectedOmitted ==
    [][(last'.op = "reapply" /\ last'.status = "done")
        => /\ \A b \in Range(unprocessedBlockTypes) :
                 (\/ applyFilters(filters, Plain(b)).kind = "array"
                  \/ (applyFilters(filters, Plain(b)).kind = "object"
                        /\ ~ValidShape(applyFilters(filters, Plain(b)).fields)))
                    => /\ \A i \in 1..Len(last'.batch) : NameOf(last'.batch[i]) # NameOf(b)
                       /\ (NameOf(b) \in DOMAIN blockTypes')
                            = (NameOf(b) \in DOMAIN blockTypes)
                       /\ NameOf(b) \in DOMAIN blockTypes
                            => blockTypes'[NameOf(b)] = blockTypes[NameOf(b)]
           /\ last'.batch = <<>>
                => /\ blockTypes' = blockTypes
                   /\ Count(last'.events, "dispatch") = 0]_vars

\* A pass that rejects a raw entry whose earlier definition stays in the processed map,
\* while it commits another entry.
C10_Witness ==
    /\ last.op = "reapply" /\ last.status = "done" /\ filters = <<>>
    /\ last.batch # <<>>
    /\ \E b \in Range(unprocessedBlockTypes) :
          /\ ~ValidShape(b)
          /\ NameOf(b) \notin BatchNames
          /\ NameOf(b) \in DOMAIN blockTypes

\* What the chain hooked hands back for the own properties of an object.
Filtered(obj) == applyFilters(filters, Plain(ownEnumerable(obj)))

WrapCount == Cardinality({i \in 1..Len(filters) : filters[i] = "wrapSave"})
RECURSIVE Wrap(_, _)
Wrap(value, n) == IF n = 0 THEN value ELSE Wrap(Fn("wrap(" \o value.v \o ")"), n - 1)
DeprecatedIn == last.blockType["deprecated"].v
DeprecatedOut == last.batch[1]["deprecated"].v

\* C11: in an accepted registration no processed deprecation has a key of
\* DEPRECATED_ENTRY_KEYS from the live block type: under each such key it holds what
\* the deprecation itself declared (for save, wrapped by the wrapSave filters hooked),
\* and nothing when the deprecation declared nothing and no filter wrote the key; so a
\* deprecation without supports has none, whatever supports the live block type declares.
C11_NothingInherited ==
    (Registered /\ last.status = "accepted" /\ Has(last.blockType, "deprecated"))
        => \A i \in DOMAIN DeprecatedIn \cap DOMAIN DeprecatedOut :
              \A k \in DEPRECATED_ENTRY_KEYS :
                 IF k = "save" /\ WrapCount > 0
                 THEN Get(DeprecatedOut[i], k) = Wrap(Get(DeprecatedIn[i], k), WrapCount)
                 ELSE Get(DeprecatedOut[i], k) = Get(DeprecatedIn[i], k)

\* A live block type with supports and save, and a deprecation that declares neither
\* and is processed to an entry without supports.
C11_Witness ==
    /\ Registered /\ last.status = "accepted"
    /\ Has(last.blockType, "supports") /\ Has(last.blockType, "deprecated")
    /\ \E i \in DOMAIN DeprecatedOut :
          /\ ~Has(DeprecatedIn[i], "supports") /\ ~Has(DeprecatedIn[i], "save")
          /\ ~Has(DeprecatedOut[i], "supports") /\ ~Has(DeprecatedOut[i], "save")
    /\ Has(blockTypes[LastName], "supports")

\* C12 as stated: no call of __experimentalRegisterBlockType or
\* __experimentalReapplyBlockTypeFilters throws to its caller, whatever the filters
\* (which do not throw themselves) hand back.
C12_NeverThrows == last.op \in {"register", "reapply"} => last.status # "threw"

RemovedNames == Range(last.blockType["names"].items)

\* C13: removeBlockTypes takes each name given out of the processed map and leaves
\* every other entry as it was; for a name that has no entry nothing changes, and the
\* raw log and the categories are left alone.
C13_RemoveOnlyNamed ==
    [][last'.op = "remove"
        => LET names == Range(last'.blockType["names"].items)
           IN /\ DOMAIN blockTypes' = DOMAIN blockTypes \ names
              /\ \A n \in DOMAIN blockTypes' : blockTypes'[n] = blockTypes[n]
              /\ names \cap DOMAIN blockTypes = {} => blockTypes' = blockTypes
              /\ unprocessedBlockTypes' = unprocessedBlockTypes
              /\ categories' = categories
              /\ last'.status = "done"]_vars

\* The name core/b, submitted before, removed while the entry of core/a stays.
C13_Witness ==
    /\ last.op = "remove" /\ RemovedNames = {"core/b"}
    /\ "core/b" \in UnprocessedNames
    /\ DOMAIN blockTypes = {"core/a"}

\* C14: updateCategory with a slug that no category of the list has leaves the list as
\* it was; with a slug that matches, the list keeps its length, its order and its slugs,
\* the matching category takes the fields of the partial and every other category is as
\* it was.  Neither touches the block types.
C14_UpdateOnlyMatching ==
    [][last'.op = "updateCategory"
        => LET slug == last'.blockType["name"].v
           IN /\ last'.status = "done"
              /\ Len(categories') = Len(categories)
              /\ \A i \in 1..Len(categories) :
                    /\ categories'[i].slug = categories[i].slug
                    /\ categories[i].slug # slug => categories'[i] = categories[i]
                    /\ categories[i].slug = slug
                         => /\ categories'[i].title \in {p.title : p \in CategoryPatches}
                            /\ DOMAIN categories'[i] = DOMAIN categories[i]
              /\ slug \notin KnownSlugs => categories' = categories
              /\ blockTypes' = blockTypes
              /\ unprocessedBlockTypes' = unprocessedBlockTypes]_vars

\* An update of the slug custom while the list is the default one, which has no such
\* category.
C14_Witness ==
    /\ last.op = "updateCategory" /\ last.blockType["name"].v = "custom"
    /\ "custom" \notin KnownSlugs
    /\ categories = DEFAULT_CATEGORIES

\* A definition as the validator lets it through: callable save, edit absent or
\* callable, title a non-empty string, icon normalized with a valid src.
PassedChecks(obj) ==
    /\ Callable(Get(obj, "save")) /\ EditOk(obj) /\ TitleOk(obj)
    /\ Get(obj, "icon").t = "object" /\ Get(obj, "icon").v # ""

FirstFailure(settings) ==
    IF settings.kind # "object" THEN MsgObject
    ELSE IF ~Callable(Get(settings.fields, "save")) THEN MsgSave
    ELSE IF ~EditOk(settings.fields) THEN MsgEdit
    ELSE IF Get(settings.fields, "title").t = "undefined"
              \/ Get(settings.fields, "title") = Str("") THEN MsgTitle
    ELSE IF settings.fields["title"].t # "string" THEN MsgTitleType
    ELSE IF ~IconOk(settings.fields) THEN MsgIcon
    ELSE ""
Errors == {i \in 1..Len(last.events) : last.events[i].level = "error"}

\* C16: a registration that is rejected emits exactly one error, the one of the first
\* check its filtered settings fail in the order plain object, save, edit, title missing
\* or empty, title type, icon, and nothing after it; a registration that is accepted
\* emits no error and its filtered settings fail no check.
C16_FirstFailureOnly ==
    Registered
        => /\ last.status = "rejected"
                => /\ Errors = {Len(last.events)}
                   /\ FirstFailure(Filtered(last.blockType)) # ""
                   /\ last.events[Len(last.events)]
                          = Error(FirstFailure(Filtered(last.blockType)), LastName)
           /\ last.status = "accepted"
                => /\ Errors = {}
                   /\ FirstFailure(Filtered(last.blockType)) = ""
           /\ Filtered(last.blockType).kind # "null"
                => last.status \in {"accepted", "rejected"}

\* A candidate that fails the save, the title and the icon check and is rejected with
\* the save error alone.
C16_Witness ==
    /\ Registered /\ last.status = "rejected" /\ filters = <<>>
    /\ ~Has(last.blockType, "save") /\ ~Has(last.blockType, "title")
    /\ Get(last.blockType, "icon") = Num("0")
    /\ Errors = {Len(last.events)}
    /\ Emitted(Error(MsgSave, LastName))

\* C17 as stated, for the settings the validator gets: when the filtered settings are no
\* plain object, the registration is rejected with the error 'Block settings must be a
\* valid object.' and with no other error.
C17_NotPlainRejected ==
    (Registered /\ Filtered(last.blockType).kind # "object")
        => /\ last.status = "rejected"
           /\ Errors = {Len(last.events)}
           /\ Emitted(Error(MsgObject, LastName))

\* What does hold of the check of lines 106-109: filtered settings that are an array or
\* a number are rejected with that error alone, and a block type handed in as an array
\* or a function is judged by the own properties the spread copies.
C17_ArrayOrNumberRejected ==
    Registered
        => /\ Filtered(last.blockType).kind \in {"array", "number"}
                => /\ last.status = "rejected"
                   /\ Errors = {Len(last.events)}
                   /\ Emitted(Error(MsgObject, LastName))
           /\ Filtered(last.blockType).kind = "object"
                => /\ ~Emitted(Error(MsgObject, LastName))
                   /\ (last.status = "accepted")
                          = (FirstFailure(Filtered(last.blockType)) = "")

Warnings == {i \in 1..Len(last.events) : last.events[i].level = "warn"}

C19_DeprecationsKeptInOrder ==
    (Registered /\ last.status = "accepted" /\ Has(last.blockType, "deprecated"))
        => /\ Get(last.batch[1], "deprecated").t = "array"
           /\ Len(DeprecatedOut) = Len(DeprecatedIn)
           /\ \A i \in DOMAIN DeprecatedOut :
                 /\ DOMAIN DeprecatedOut[i] \subseteq DEPRECATED_ENTRY_KEYS
                 /\ \A k \in DOMAIN DeprecatedIn[i] \cap DEPRECATED_ENTRY_KEYS :
                       /\ Has(DeprecatedOut[i], k)
                       /\ DeprecatedOut[i][k]
                            = Wrap(DeprecatedIn[i][k], IF k = "save" THEN WrapCount ELSE 0)

\* Two different deprecations, the first with a title of its own, processed in their
\* order under a filter that adds usesContext to whatever it is given: the live
\* definition has the key, the two entries do not.
C19_Witness ==
    /\ Registered /\ last.status = "accepted" /\ filters = <<"addContext">>
    /\ Has(last.blockType, "deprecated")
    /\ Has(last.batch[1], "usesContext")
    /\ Len(DeprecatedIn) = 2
    /\ DeprecatedIn[1] = Deprecation(Fn("saveV2"), Absent, Str("Old"))
    /\ DeprecatedIn[2] = Deprecation(Absent, Obj("anchor"), Absent)
    /\ DeprecatedOut = <<Deprecation(Fn("saveV2"), Absent, Absent),
                         Deprecation(Absent, Obj("anchor"), Absent)>>

====
